---- MODULE Spec2Model ----
(***************************************************************************)
(* The sequential tool-calling round controller of backend/ai_generator.py *)
(* (class AIGenerator) as a state machine.  One query is one run of        *)
(* generate_response; the generation service (client.messages.create) and  *)
(* the tool manager (tool_manager.execute_tool) are external and answer    *)
(* nondeterministically.  The query pipeline around generate_response and  *)
(* the citations of the tool registry are modelled after the generator.    *)
(***************************************************************************)
EXTENDS Integers, Sequences, FiniteSets, TLC

\* ------------------------------------------------------------------ bounds

\* Largest round limit (max_rounds) a caller passes in the model.
MaxRoundLimit == 2

\* Largest number of content blocks in one generation-service response.
MaxBlocks == 2

\* Largest number of chunks one search finds.
MaxChunks == 2

\* Largest number of calls made on the search tool and the registry when they
\* are exercised on their own.
MaxRegistryCalls == 3

\* N, the number of exchanges a session keeps.
MaxHistory == 2

\* Largest number of calls made on the Session Store when it is exercised on
\* its own: enough to fill one session and evict its oldest exchange.
MaxStoreCalls == MaxHistory + 2

\* Largest number of exchanges a session store holds before the query that
\* is followed through the pipeline.
MaxSeeds == 1

\* Cap on the generation-service calls of one query.  It is above every
\* number of calls the code can make (see CallCapIsSlack), so it only keeps
\* the state space finite when a definition is altered.
MaxCalls == MaxRoundLimit + 2

\* The session ids callers pass.
SessionIds == {"s1", "s2"}

\* Query slots: the state of generate_response is local to one invocation,
\* so each running query has its own copy of it.
Slots == {1, 2}

\* The slots that run queries under Spec.
MainSlots == {1}

\* ------------------------------------------------------------- data values

\* Optional[...] values of Python: None, or a value.
None == [some |-> FALSE, val |-> <<>>]

Some(v) == [some |-> TRUE, val |-> v]

\* Python truthiness of an Optional[List] or Optional[str]: None, [] and ""
\* are false.
Truthy(opt) == opt.some /\ Len(opt.val) > 0

\* AIGenerator.SYSTEM_PROMPT
SYSTEM_PROMPT == "SYSTEM_PROMPT"

\* AIGenerator.base_params
base_params == [model |-> "model", temperature |-> 0, max_tokens |-> 800]

\* The tool definitions a caller can pass as `tools`.
ToolDefinitions == <<"search_course_content", "get_course_outline">>

\* The values of the `tools` argument: None, an empty list, the definitions.
ToolsArgs == {None, Some(<<>>), Some(ToolDefinitions)}

\* The values of the `conversation_history` argument.
Histories == {None, Some(""), Some("User: q\nAssistant: a")}

\* The histories that differ in what is sent: without a history, and with
\* one.  The empty string is sent as no history is; HistorySpec has it.
GivenHistories == {None, Some("User: q\nAssistant: a")}

\* The values of the `max_rounds` argument.
RoundLimits == (-1) .. MaxRoundLimit

StopReasons == {"tool_use", "end_turn"}

BlockTypes == {"text", "tool_use"}

\* The text of the k-th response the generation service gives to query q.
ResponseText(q, k) == "answer q" \o ToString(q) \o " call " \o ToString(k)

\* The correlation id of the tool request at position i of that response.
ToolUseId(q, k, i) ==
    "toolu q" \o ToString(q) \o " call " \o ToString(k) \o " block " \o ToString(i)

TextBlock(t) == [type |-> "text", text |-> t]

ToolUseBlock(id, name) == [type |-> "tool_use", id |-> id, name |-> name]

\* The block types of the contents the generation service sends: text blocks
\* first, then tool_use blocks, at most MaxBlocks blocks in all.
ContentShapes ==
    {[i \in 1 .. (n[1] + n[2]) |-> IF i <= n[1] THEN "text" ELSE "tool_use"] :
        n \in {m \in (0 .. 1) \X (0 .. MaxBlocks) : m[1] + m[2] <= MaxBlocks}}

\* The content of the k-th response to query q whose blocks have the types
\* listed in shape.
ContentOf(q, k, shape) ==
    [i \in 1 .. Len(shape) |->
        IF shape[i] = "text"
        THEN TextBlock(ResponseText(q, k))
        ELSE ToolUseBlock(ToolUseId(q, k, i), "search_course_content")]

\* The responses client.messages.create can give to the k-th call of query q:
\* any stop reason with any of the contents.
Responses(q, k) ==
    {[stop_reason |-> s, content |-> ContentOf(q, k, shape)] :
        s \in StopReasons, shape \in ContentShapes}

NoResponse == [stop_reason |-> "none", content |-> <<>>]

\* What a call of generate_response gives its caller: nothing yet, a returned
\* string, or a raised exception.
Pending == [kind |-> "pending", value |-> ""]

Returned(t) == [kind |-> "returned", value |-> t]

Raised(e) == [kind |-> "raised", value |-> e]

\* ------------------------------------------------------------------- state

VARIABLES
    pc,                \* position of each query in generate_response
    query,             \* argument query
    conversation_history,  \* argument conversation_history
    system_content,    \* local system_content
    tools,             \* argument tools
    tool_manager,      \* argument tool_manager: TRUE when one is supplied
    max_rounds,        \* argument max_rounds
    messages,          \* initial_messages, then the local copy messages
    current_response,  \* local current_response
    round_count,       \* local round_count
    tool_results,      \* local tool_results of _execute_tools
    block_index,       \* position of the for loop of _execute_tools
    api_calls,         \* the api_params of every client.messages.create call
    responses,         \* what client.messages.create gave to each of them
    dispatches,        \* every tool_manager.execute_tool call and its outcome
    result,            \* what generate_response gave its caller
    last_sources,      \* the citations stored by the last tool execution
    produced,          \* the citations of each tool execution of a query
    stage,             \* position of each query in the query pipeline
    sources,           \* the citations the pipeline read for each query
    reply,             \* what the query pipeline gave its caller
    session_id,        \* argument session_id of each query of the pipeline
    registry_calls,    \* the calls made on the search tool and the registry
    sessions,          \* the exchanges the session store holds per session
    session_calls      \* the calls made on the session store

vars ==
    <<pc, query, conversation_history, system_content, tools, tool_manager,
      max_rounds, messages,
      current_response, round_count, tool_results, block_index, api_calls,
      responses, dispatches, result, last_sources, produced, stage, sources,
      reply, session_id, registry_calls, sessions, session_calls>>

\* The state of the query pipeline around generate_response.
pipeline_vars == <<stage, sources, reply, session_id>>

\* The session store, and the records of the calls made on the components.
store_vars == <<registry_calls, sessions, session_calls>>

\* The state of the invocations of generate_response.
generator_vars ==
    <<pc, query, conversation_history, system_content, tools, tool_manager,
      max_rounds, messages,
      current_response, round_count, tool_results, block_index, api_calls,
      responses, dispatches, result>>

\* The state of the registry's citations.
citation_vars == <<last_sources, produced>>

\* ------------------------------------------------------- pure computations

\* A system content that has the block for every history that is not None.
build_system_content_not_none(history) ==
    IF history.some
    THEN SYSTEM_PROMPT \o "\n\nPrevious conversation:\n" \o history.val
    ELSE SYSTEM_PROMPT

\* _build_system_content
build_system_content(history) ==
    IF Truthy(history)
    THEN SYSTEM_PROMPT \o "\n\nPrevious conversation:\n" \o history.val
    ELSE SYSTEM_PROMPT

\* A request that sends the fixed instructions and leaves the history out.
api_params_bare_system(msgs, system, tls) ==
    LET base == base_params @@ [messages |-> msgs, system |-> SYSTEM_PROMPT]
    IN  IF Truthy(tls)
        THEN base @@ [tools |-> tls.val, tool_choice |-> [type |-> "auto"]]
        ELSE base

\* A request that has the keys whenever a list is passed, even an empty one.
api_params_not_none(msgs, system, tls) ==
    LET base == base_params @@ [messages |-> msgs, system |-> system]
    IN  IF tls.some
        THEN base @@ [tools |-> tls.val, tool_choice |-> [type |-> "auto"]]
        ELSE base

\* The api_params of _make_api_call: the tools and tool_choice keys are
\* present only when the tools passed to the call are truthy.
api_params(msgs, system, tls) ==
    LET base == base_params @@ [messages |-> msgs, system |-> system]
    IN  IF Truthy(tls)
        THEN base @@ [tools |-> tls.val, tool_choice |-> [type |-> "auto"]]
        ELSE base

\* A slip of index: the text of the last block instead of the first.
first_text_last(response) ==
    IF Len(response.content) = 0 THEN Raised("IndexError")
    ELSE IF response.content[Len(response.content)].type # "text"
    THEN Raised("AttributeError")
    ELSE Returned(response.content[Len(response.content)].text)

\* response.content[0].text: an empty content raises IndexError, a first
\* block without a text attribute raises AttributeError.
first_text(response) ==
    IF Len(response.content) = 0 THEN Raised("IndexError")
    ELSE IF response.content[1].type # "text" THEN Raised("AttributeError")
    ELSE Returned(response.content[1].text)

\* A condition that starts tool rounds without looking for a tool manager.
starts_rounds_unmanaged(response, manager) ==
    response.stop_reason = "tool_use"

\* The condition of line 240: tool rounds start when the first response
\* stops for tool use and a tool manager was supplied.
starts_rounds(response, manager) ==
    response.stop_reason = "tool_use" /\ manager

\* A loop whose body runs once before the limit is looked at.
loop_condition_at_least_once(rc, limit) == rc = 0 \/ rc < limit

\* A loop that keeps one round in reserve.
loop_condition_one_less(rc, limit) == rc < limit - 1

\* The loop condition of _execute_sequential_rounds (line 167).
loop_condition(rc, limit) == rc < limit

\* A termination test that looks for tool_use blocks in the content.
no_tool_use_by_blocks(response) ==
    \A i \in 1 .. Len(response.content) :
        response.content[i].type # "tool_use"

\* The termination test at the head of the loop body (line 169): the
\* response does not stop for tool use.
no_tool_use(response) == response.stop_reason # "tool_use"

\* An off-by-one test of the round limit.
max_rounds_reached_late(rc, limit) == rc > limit

\* A test that takes every round for the last one.
max_rounds_reached_always(rc, limit) == TRUE

\* The test after a round: the round limit is reached.
max_rounds_reached(rc, limit) == rc >= limit

\* A round that is not counted.
next_round_count_stuck(rc) == rc

\* The round counter after a round (line 188).
next_round_count(rc) == rc + 1

\* A final call that still advertises the caller's tools.
final_call_tools_kept(tls) == tls

\* The tools passed to the final call (line 194).
final_call_tools(tls) == None

\* A final return that gives up when the final response asks for tools again.
final_return_checked(response) ==
    IF response.stop_reason = "tool_use" THEN Returned("No response generated")
    ELSE first_text(response)

\* The return after the final call (line 196): the text of the response,
\* whatever its stop reason.
final_return(response) == first_text(response)

\* A test that takes every list of results, an empty one too, as results.
no_results_ignored(results) == FALSE

\* The test `if not tool_results` (line 178): _execute_tools gave None
\* because it collected no result.
no_results(results) == Len(results) = 0

\* An abort that gives its fixed string whatever the response holds.
abort_return_fixed(response) == Returned("Tool execution failed")

\* The return of the no-results abort.
abort_return(response) ==
    IF Len(response.content) > 0 THEN first_text(response)
    ELSE Returned("Tool execution failed")

\* The return after the loop.
fallback_return(response) ==
    IF Len(response.content) > 0 THEN first_text(response)
    ELSE Returned("No response generated")

\* A call that is made again when it raises.
fault_pc_retries(at) == at

\* Where generate_response is after client.messages.create raised at the
\* position at: no call is inside a try statement (lines 99, 193, 199, 237),
\* so the exception leaves generate_response.
fault_pc(at) == "done"

\* The outcomes of tool_manager.execute_tool: it returns a string or raises.
ToolOutcomes == {"ok", "raise"}

\* The names of the tools registered with the tool manager.
RegisteredTools == {ToolDefinitions[i] : i \in 1 .. Len(ToolDefinitions)}

\* What execute_tool can do with a request: a registered tool is executed; for
\* any other name the registry returns its "not found" message, it does not
\* raise.
execute_tool_outcomes(name) ==
    IF name \in RegisteredTools THEN ToolOutcomes ELSE {"not_found"}

\* The message of the registry for a name it does not know.
ToolNotFound(block) == "Tool '" \o block.name \o "' not found"

\* What execute_tool returns for a request.
ToolOutput(block) == "output of " \o block.id

\* str(e) of the exception execute_tool raises.
ToolError == "tool error"

\* What execute_tool returns when it does not raise.
execute_tool_return(block, outcome) ==
    IF outcome = "not_found" THEN ToolNotFound(block) ELSE ToolOutput(block)

\* A failure entry that carries only str(e).
tool_result_bare_error(block, outcome) ==
    [type |-> "tool_result",
     tool_use_id |-> block.id,
     content |-> IF outcome = "raise" THEN ToolError
                 ELSE execute_tool_return(block, outcome)]

\* The tool_result entry _execute_tools appends for one tool_use block.
tool_result(block, outcome) ==
    [type |-> "tool_result",
     tool_use_id |-> block.id,
     content |-> IF outcome = "raise"
                 THEN "Tool execution failed: " \o ToolError
                 ELSE execute_tool_return(block, outcome)]

\* An iteration that records no result when execute_tool raises.
collect_result_drops_failures(results, block, outcome) ==
    IF outcome = "ok" THEN Append(results, tool_result(block, outcome))
    ELSE results

\* An iteration that records no result for a tool the registry does not know.
collect_result_drops_unknown(results, block, outcome) ==
    IF outcome = "not_found" THEN results
    ELSE Append(results, tool_result(block, outcome))

\* An iteration that puts the new result in front of the earlier ones.
collect_result_prepends(results, block, outcome) ==
    <<tool_result(block, outcome)>> \o results

\* tool_results after the iteration of _execute_tools for one tool_use block:
\* one entry is appended whether execute_tool returned or raised.
collect_result(results, block, outcome) ==
    Append(results, tool_result(block, outcome))

\* A for loop that is left when execute_tool raises.
next_block_index_stops_on_fault(index, content, outcome) ==
    IF outcome = "raise" THEN Len(content) + 1 ELSE index + 1

\* A for loop that tries a block again when execute_tool raised.
next_block_index_retries(index, content, outcome) ==
    IF outcome = "raise" THEN index ELSE index + 1

\* The position of the for loop of _execute_tools after the iteration at
\* index: the try statement is inside the loop body, so the loop goes on to
\* the next block whether the block was skipped ("none"), or execute_tool
\* returned or raised.
next_block_index(index, content, outcome) == index + 1

\* The citations of the chunks a search found: one per chunk, in the order
\* of the chunks.
citations_of(found) == [i \in 1 .. Len(found) |-> "source of " \o found[i]]

\* The citations a tool execution emits for the request: the search of the
\* model finds one chunk for each request.
Citations(block) == citations_of(<<block.id>>)

\* An execution that leaves the stored citations when it finds nothing.
store_citations_keeps_on_empty(stored, found) ==
    IF Len(found) = 0 THEN stored ELSE citations_of(found)

\* The citations field of the tool after an execution that found the chunks:
\* it is overwritten, not accumulated, on every call.
store_citations(stored, found) == citations_of(found)

\* A reset that removes one citation for each call.
reset_citations_one_by_one(stored) ==
    IF Len(stored) = 0 THEN stored ELSE Tail(stored)

\* The citations of the registry after resetCitations.
reset_citations(stored) == <<>>

\* The citations field of the tool after an execution: an execution that
\* returns overwrites it with its own citations; one that raises is taken to
\* fail before it writes.
record_sources(stored, block, outcome) ==
    IF outcome = "ok" THEN store_citations(stored, <<block.id>>) ELSE stored

\* The citations the executions of a query have emitted so far, one entry per
\* execution that returned.
record_produced(emitted, block, outcome) ==
    IF outcome = "ok" THEN Append(emitted, Citations(block)) ELSE emitted

\* An assistant message that keeps only the text blocks of the response.
assistant_message_text_only(response) ==
    [role |-> "assistant",
     content |-> SelectSeq(response.content, LAMBDA b : b.type = "text")]

\* The message appended for a response that asks for tools (line 173).
assistant_message(response) == [role |-> "assistant", content |-> response.content]

\* Tool results appended under the role of the previous message.
tool_results_message_as_assistant(results) ==
    [role |-> "assistant", content |-> results]

\* The message appended for the tool results of a round (line 187).
tool_results_message(results) == [role |-> "user", content |-> results]

\* One log kept on the generator and used by every invocation.
log_of_shared(q) == 1

\* The list that invocation q of generate_response builds and appends to:
\* line 234 makes a new list in each invocation and line 163 copies it, so
\* each invocation has a list of its own.
log_of(q) == q

\* A log rebuilt from the query and the new message only.
append_message_restarts(log, message) == <<log[1], message>>

\* The message appended twice.
append_message_twice(log, message) == Append(Append(log, message), message)

\* messages.append(message) (lines 173 and 187).
append_message(log, message) == Append(log, message)

\* initial_messages (line 234).
initial_messages(text) == <<[role |-> "user", content |-> text]>>

\* ------------------------------------------------------------------- start

Init ==
    /\ pc = [q \in Slots |-> "idle"]
    /\ query = [q \in Slots |-> ""]
    /\ conversation_history = [q \in Slots |-> None]
    /\ system_content = [q \in Slots |-> ""]
    /\ tools = [q \in Slots |-> None]
    /\ tool_manager = [q \in Slots |-> FALSE]
    /\ max_rounds = [q \in Slots |-> 2]
    /\ messages = [q \in Slots |-> <<>>]
    /\ current_response = [q \in Slots |-> NoResponse]
    /\ round_count = [q \in Slots |-> 0]
    /\ tool_results = [q \in Slots |-> <<>>]
    /\ block_index = [q \in Slots |-> 1]
    /\ api_calls = [q \in Slots |-> <<>>]
    /\ responses = [q \in Slots |-> <<>>]
    /\ dispatches = [q \in Slots |-> <<>>]
    /\ result = [q \in Slots |-> Pending]
    /\ last_sources = <<>>
    /\ produced = [q \in Slots |-> <<>>]
    /\ stage = [q \in Slots |-> "idle"]
    /\ sources = [q \in Slots |-> <<>>]
    /\ reply = [q \in Slots |-> Pending]
    /\ session_id = [q \in Slots |-> None]
    /\ registry_calls = <<>>
    /\ sessions = [id \in SessionIds |-> <<>>]
    /\ session_calls = <<>>

\* ----------------------------------------------------------------- actions

\* client.messages.create(**api_params) for query q: the request is recorded
\* and the service either answers with a response or raises.
ApiOutcomes(q) ==
    {[fault |-> FALSE, response |-> r] : r \in Responses(q, Len(api_calls[q]) + 1)}
        \cup {[fault |-> TRUE, response |-> NoResponse]}

\* A caller invokes generate_response with a conversation history and tools
\* from the given sets: lines 230-234, up to the first call.
StartQueryWith(q, texts, histories, toolsArgs, managers, limits) ==
    /\ pc[q] = "idle"
    /\ \E text \in texts, history \in histories, tls \in toolsArgs,
          manager \in managers, limit \in limits :
        /\ query' = [query EXCEPT ![q] = text]
        /\ conversation_history' =
               [conversation_history EXCEPT ![q] = history]
        /\ system_content' =
               [system_content EXCEPT ![q] = build_system_content(history)]
        /\ tools' = [tools EXCEPT ![q] = tls]
        /\ tool_manager' = [tool_manager EXCEPT ![q] = manager]
        /\ max_rounds' = [max_rounds EXCEPT ![q] = limit]
    /\ messages' = [messages EXCEPT ![log_of(q)] = initial_messages(query'[q])]
    /\ pc' = [pc EXCEPT ![q] = "initial_call"]
    /\ UNCHANGED <<current_response, round_count, tool_results, block_index,
                   api_calls, responses, dispatches, result>>
    /\ UNCHANGED citation_vars

\* generate_response is invoked with the query text of the slot.
StartQuery(q, histories, toolsArgs, managers, limits) ==
    StartQueryWith(q, {"query " \o ToString(q)}, histories, toolsArgs,
                   managers, limits)

generate_response(q) ==
    /\ StartQuery(q, GivenHistories, ToolsArgs, BOOLEAN, RoundLimits)
    /\ UNCHANGED pipeline_vars
    /\ UNCHANGED store_vars

\* The first call (line 237) and the branch after it (lines 240-251): either
\* _execute_sequential_rounds is entered (lines 163-165) or the text of the
\* response is returned.
InitialCallFrom(q, outcomes) ==
    /\ pc[q] = "initial_call"
    /\ Len(api_calls[q]) < MaxCalls
    /\ api_calls' = [api_calls EXCEPT
           ![q] = Append(@, api_params(messages[log_of(q)], system_content[q], tools[q]))]
    /\ \E out \in outcomes :
        /\ responses' = [responses EXCEPT ![q] = Append(@, out)]
        /\ IF out.fault
           THEN /\ result' = [result EXCEPT ![q] = Raised("APIError")]
                /\ pc' = [pc EXCEPT ![q] = fault_pc(pc[q])]
                /\ UNCHANGED <<current_response, round_count>>
           ELSE IF starts_rounds(out.response, tool_manager[q])
           THEN /\ current_response' = [current_response EXCEPT ![q] = out.response]
                /\ round_count' = [round_count EXCEPT ![q] = 0]
                /\ pc' = [pc EXCEPT ![q] = "loop"]
                /\ UNCHANGED result
           ELSE /\ result' = [result EXCEPT ![q] = first_text(out.response)]
                /\ pc' = [pc EXCEPT ![q] = "done"]
                /\ UNCHANGED <<current_response, round_count>>
    /\ UNCHANGED <<query, conversation_history, system_content, tools,
                   tool_manager, max_rounds,
                   messages, tool_results, block_index, dispatches>>
    /\ UNCHANGED <<citation_vars, pipeline_vars>>
    /\ UNCHANGED store_vars

\* The first call answered with any of the responses of the service.
InitialCall(q) == InitialCallFrom(q, ApiOutcomes(q))

\* The head of the while loop (lines 167-176): leave the loop for the
\* fallback return, return the text of a response without tool use, or append
\* the assistant message and enter _execute_tools (line 112).
LoopHead(q) ==
    /\ pc[q] = "loop"
    /\ IF ~loop_condition(round_count[q], max_rounds[q])
       THEN /\ result' = [result EXCEPT ![q] = fallback_return(current_response[q])]
            /\ pc' = [pc EXCEPT ![q] = "done"]
            /\ UNCHANGED <<messages, tool_results, block_index>>
       ELSE IF no_tool_use(current_response[q])
       THEN /\ result' = [result EXCEPT ![q] = first_text(current_response[q])]
            /\ pc' = [pc EXCEPT ![q] = "done"]
            /\ UNCHANGED <<messages, tool_results, block_index>>
       ELSE /\ messages' = [messages EXCEPT
                   ![log_of(q)] =
                       append_message(@, assistant_message(current_response[q]))]
            /\ tool_results' = [tool_results EXCEPT ![q] = <<>>]
            /\ block_index' = [block_index EXCEPT ![q] = 1]
            /\ pc' = [pc EXCEPT ![q] = "execute_tools"]
            /\ UNCHANGED result
    /\ UNCHANGED <<query, conversation_history, system_content, tools,
                   tool_manager, max_rounds,
                   current_response, round_count, api_calls, responses,
                   dispatches>>
    /\ UNCHANGED <<citation_vars, pipeline_vars>>
    /\ UNCHANGED store_vars

\* One iteration of the for loop of _execute_tools (lines 114-136): a
\* tool_use block is dispatched and its result, or the caught exception, is
\* appended to tool_results; any other block is skipped.  The tool the
\* registry dispatches to stores the citations of the execution.
ExecuteToolBlock(q) ==
    /\ pc[q] = "execute_tools"
    /\ block_index[q] <= Len(current_response[q].content)
    /\ LET content_block == current_response[q].content[block_index[q]]
       IN  IF content_block.type = "tool_use"
           THEN \E outcome \in execute_tool_outcomes(content_block.name) :
                /\ dispatches' = [dispatches EXCEPT
                       ![q] = Append(@, [id |-> content_block.id,
                                         name |-> content_block.name,
                                         round |-> round_count[q] + 1,
                                         outcome |-> outcome])]
                /\ tool_results' = [tool_results EXCEPT
                       ![q] = collect_result(@, content_block, outcome)]
                /\ block_index' = [block_index EXCEPT
                       ![q] = next_block_index(@, current_response[q].content,
                                               outcome)]
                /\ last_sources' =
                       record_sources(last_sources, content_block, outcome)
                /\ produced' = [produced EXCEPT
                       ![q] = record_produced(@, content_block, outcome)]
           ELSE /\ block_index' = [block_index EXCEPT
                       ![q] = next_block_index(@, current_response[q].content,
                                               "none")]
                /\ UNCHANGED <<dispatches, tool_results, citation_vars>>
    /\ UNCHANGED <<pc, query, conversation_history, system_content, tools, tool_manager,
      max_rounds,
                   messages, current_response, round_count, api_calls,
                   responses, result>>
    /\ UNCHANGED pipeline_vars
    /\ UNCHANGED store_vars

\* _execute_tools returns (line 138) and the round is closed (lines 178-191):
\* without results the loop is aborted; otherwise the results are appended as
\* a user message, the round is counted and the next call is chosen.
CloseRound(q) ==
    /\ pc[q] = "execute_tools"
    /\ block_index[q] > Len(current_response[q].content)
    /\ IF no_results(tool_results[q])
       THEN /\ result' = [result EXCEPT ![q] = abort_return(current_response[q])]
            /\ pc' = [pc EXCEPT ![q] = "done"]
            /\ UNCHANGED <<messages, round_count>>
       ELSE /\ messages' = [messages EXCEPT
                   ![log_of(q)] =
                       append_message(@, tool_results_message(tool_results[q]))]
            /\ round_count' = [round_count EXCEPT ![q] = next_round_count(@)]
            /\ pc' = [pc EXCEPT
                   ![q] = IF max_rounds_reached(round_count'[q], max_rounds[q])
                          THEN "final_call" ELSE "next_call"]
            /\ UNCHANGED result
    /\ UNCHANGED <<query, conversation_history, system_content, tools,
                   tool_manager, max_rounds,
                   current_response, tool_results, block_index, api_calls,
                   responses, dispatches>>
    /\ UNCHANGED <<citation_vars, pipeline_vars>>
    /\ UNCHANGED store_vars

\* The final call without tools (lines 193-196): its text is returned.
FinalCall(q) ==
    /\ pc[q] = "final_call"
    /\ Len(api_calls[q]) < MaxCalls
    /\ api_calls' = [api_calls EXCEPT
           ![q] = Append(@, api_params(messages[log_of(q)], system_content[q],
                                       final_call_tools(tools[q])))]
    /\ \E out \in ApiOutcomes(q) :
        /\ responses' = [responses EXCEPT ![q] = Append(@, out)]
        /\ result' = [result EXCEPT
               ![q] = IF out.fault THEN Raised("APIError")
                      ELSE final_return(out.response)]
        /\ pc' = [pc EXCEPT
               ![q] = IF out.fault THEN fault_pc(pc[q]) ELSE "done"]
    /\ UNCHANGED <<query, conversation_history, system_content, tools,
                   tool_manager, max_rounds,
                   messages, current_response, round_count, tool_results,
                   block_index, dispatches>>
    /\ UNCHANGED <<citation_vars, pipeline_vars>>
    /\ UNCHANGED store_vars

\* The call that continues with the next round (line 199).
NextCall(q) ==
    /\ pc[q] = "next_call"
    /\ Len(api_calls[q]) < MaxCalls
    /\ api_calls' = [api_calls EXCEPT
           ![q] = Append(@, api_params(messages[log_of(q)], system_content[q], tools[q]))]
    /\ \E out \in ApiOutcomes(q) :
        /\ responses' = [responses EXCEPT ![q] = Append(@, out)]
        /\ IF out.fault
           THEN /\ result' = [result EXCEPT ![q] = Raised("APIError")]
                /\ pc' = [pc EXCEPT ![q] = fault_pc(pc[q])]
                /\ UNCHANGED current_response
           ELSE /\ current_response' = [current_response EXCEPT ![q] = out.response]
                /\ pc' = [pc EXCEPT ![q] = "loop"]
                /\ UNCHANGED result
    /\ UNCHANGED <<query, conversation_history, system_content, tools,
                   tool_manager, max_rounds,
                   messages, round_count, tool_results, block_index, dispatches>>
    /\ UNCHANGED <<citation_vars, pipeline_vars>>
    /\ UNCHANGED store_vars

Step(q) ==
    \/ generate_response(q)
    \/ InitialCall(q)
    \/ LoopHead(q)
    \/ ExecuteToolBlock(q)
    \/ CloseRound(q)
    \/ FinalCall(q)
    \/ NextCall(q)

Next == \E q \in MainSlots : Step(q)

Spec == Init /\ [][Next]_vars

\* generate_response with every value of the conversation history, the empty
\* string included, and one round: with the round limit 1 a round is always
\* followed by the final call.
generate_response_with_history(q) ==
    /\ StartQuery(q, Histories, {Some(ToolDefinitions)}, {TRUE}, {1})
    /\ UNCHANGED pipeline_vars
    /\ UNCHANGED store_vars

HistoryStep(q) ==
    \/ generate_response_with_history(q)
    \/ InitialCall(q)
    \/ LoopHead(q)
    \/ ExecuteToolBlock(q)
    \/ CloseRound(q)
    \/ FinalCall(q)

HistoryNext == \E q \in MainSlots : HistoryStep(q)

HistorySpec == Init /\ [][HistoryNext]_vars

\* The specification of termination.  Every step of a running query is
\* eventually taken: each call of the generation service and each tool dispatch
\* returns.  The conversation history and the tools only travel into the
\* requests and decide no branch, so here they are fixed; the round limit, the
\* tool manager, the responses, the tool outcomes and the faults vary as in
\* Spec.
generate_response_fixed(q) ==
    /\ StartQuery(q, {None}, {Some(ToolDefinitions)}, BOOLEAN, RoundLimits)
    /\ UNCHANGED pipeline_vars
    /\ UNCHANGED store_vars

FairStep(q) ==
    \/ generate_response_fixed(q)
    \/ InitialCall(q)
    \/ LoopHead(q)
    \/ ExecuteToolBlock(q)
    \/ CloseRound(q)
    \/ FinalCall(q)
    \/ NextCall(q)

FairNext == \E q \in MainSlots : FairStep(q)

FairSpec ==
    Init /\ [][FairNext]_vars /\ \A q \in MainSlots : WF_vars(FairStep(q))

\* ------------------------------------------------ the Session Store

\* One exchange of a session: the text of the user and the answer.
Exchange(user, assistant) == [user |-> user, assistant |-> assistant]

\* An addExchange that keeps the oldest exchanges and drops the new one once
\* the session is full.
add_exchange_evicts_newest(history, exchange) ==
    LET added == Append(history, exchange)
    IN  IF Len(added) > MaxHistory THEN SubSeq(added, 1, MaxHistory)
        ELSE added

\* An addExchange that loses what the session held.
add_exchange_overwrites(history, exchange) == <<exchange>>

\* addExchange: the exchange is appended and the oldest ones are evicted once
\* the session holds more than N.
add_exchange(history, exchange) ==
    LET added == Append(history, exchange)
    IN  IF Len(added) > MaxHistory
        THEN SubSeq(added, Len(added) - MaxHistory + 1, Len(added))
        ELSE added

\* The lines of one exchange.
exchange_lines(exchange) ==
    "User: " \o exchange.user \o "\nAssistant: " \o exchange.assistant

\* The lines of the exchanges, oldest first, one line after another.
RECURSIVE history_lines(_)
history_lines(history) ==
    IF Len(history) = 0 THEN ""
    ELSE IF Len(history) = 1 THEN exchange_lines(history[1])
    ELSE exchange_lines(history[1]) \o "\n" \o history_lines(Tail(history))

\* getHistory: none for a session without exchanges, else the exchanges as
\* alternating lines.
get_conversation_history(history) ==
    IF Len(history) = 0 THEN None ELSE Some(history_lines(history))

\* The texts of the users and the answers given to them.
UserTexts == {"question 1", "question 2"}

AnswerTo(user) == "answer to " \o user

\* One call on the Session Store as recorded in session_calls: `by` is the
\* query that made it, 0 for a direct call.
StoreCall(op, id, by, exchange, value) ==
    [op |-> op, id |-> id, by |-> by, exchange |-> exchange, value |-> value]

\* -------------------------------------------------------- the query pipeline
\* The pipeline that wraps generate_response: query(text) gives (answer,
\* citations).  It invokes generate_response with the registry's tool
\* definitions and the registry as tool manager, reads the citations from the
\* registry, resets them and returns; a fault of generate_response is not
\* caught.  One registry, and so one citations field, serves every query.

\* The round limit of generate_response when the caller passes none.
DefaultMaxRounds == 2

\* The round limits a pipeline is configured with.
ConfiguredRounds == 1 .. DefaultMaxRounds

\* No other query is inside the pipeline.
Alone(q) ==
    \A o \in Slots \ {q} : stage[o] \in {"idle", "returned", "failed"}

\* The text a caller passes to query.
QueryText(q) == "question " \o ToString(q)

\* The prompt the pipeline makes of the text for generate_response.
prompt_of(text) == "Answer this question about course materials: " \o text

\* The history of the session a query is given (step 1): none without a
\* session.
history_for(session) ==
    IF session.some THEN get_conversation_history(sessions[session.val])
    ELSE None

\* query(text, session_id) is called with a session of `given`: the history
\* of the session is fetched (step 1) and generate_response is invoked with
\* it (steps 2 and 3).  With alone, the call is made only when no other query
\* is running.
rag_query_in(q, limits, alone, given) ==
    /\ stage[q] = "idle"
    /\ alone => Alone(q)
    /\ \E session \in given :
        /\ session_id' = [session_id EXCEPT ![q] = session]
        /\ session_calls' =
               IF session.some
               THEN Append(session_calls,
                        StoreCall("get", session.val, q, Exchange("", ""),
                                  history_for(session)))
               ELSE session_calls
        /\ StartQueryWith(q, {prompt_of(QueryText(q))}, {history_for(session)},
                          {Some(ToolDefinitions)}, {TRUE}, limits)
    /\ stage' = [stage EXCEPT ![q] = "generate"]
    /\ UNCHANGED <<sources, reply, registry_calls, sessions>>

\* query(text) is called without a session.
rag_query(q, limits, alone) == rag_query_in(q, limits, alone, {None})

\* A pipeline that catches the fault and goes on with its steps.
stage_after_generate_caught(outcome_of_call) == "sources"

\* Where query() stands when generate_response is over: a fault is not caught
\* and ends the query, an answer lets it go on to read the citations.
stage_after_generate(outcome_of_call) ==
    IF outcome_of_call.kind = "raised" THEN "failed" ELSE "sources"

\* generate_response is over: a fault goes on to the caller of query, an
\* answer is kept in result.  The locals of the invocation are gone, and the
\* record of its calls and dispatches is dropped with them.
ReceiveAnswer(q) ==
    /\ stage[q] = "generate"
    /\ pc[q] = "done"
    /\ stage' = [stage EXCEPT ![q] = stage_after_generate(result[q])]
    /\ IF stage_after_generate(result[q]) = "failed"
       THEN reply' = [reply EXCEPT ![q] = result[q]]
       ELSE UNCHANGED reply
    /\ messages' = [messages EXCEPT ![log_of(q)] = <<>>]
    /\ current_response' = [current_response EXCEPT ![q] = NoResponse]
    /\ round_count' = [round_count EXCEPT ![q] = 0]
    /\ tool_results' = [tool_results EXCEPT ![q] = <<>>]
    /\ block_index' = [block_index EXCEPT ![q] = 1]
    /\ api_calls' = [api_calls EXCEPT ![q] = <<>>]
    /\ responses' = [responses EXCEPT ![q] = <<>>]
    /\ dispatches' = [dispatches EXCEPT ![q] = <<>>]
    /\ UNCHANGED <<pc, query, conversation_history, system_content, tools, tool_manager,
      max_rounds,
                   result, citation_vars, sources, session_id>>
    /\ UNCHANGED store_vars

\* The citations are read from the registry (step 4, first half).
ReadSources(q) ==
    /\ stage[q] = "sources"
    /\ sources' = [sources EXCEPT ![q] = last_sources]
    /\ stage' = [stage EXCEPT ![q] = "reset"]
    /\ UNCHANGED <<pc, query, conversation_history, system_content, tools, tool_manager,
      max_rounds,
                   messages, current_response, round_count, tool_results,
                   block_index, api_calls, responses, dispatches, result,
                   citation_vars, reply, session_id>>
    /\ UNCHANGED store_vars

\* What query returns (step 6): the answer and the citations read.
query_reply(q) ==
    Returned([answer |-> result[q].value, sources |-> sources[q]])

\* The citations of the registry are reset (step 4, second half); without a
\* session the answer is then returned with the citations read (step 6).
ResetSources(q) ==
    /\ stage[q] = "reset"
    /\ last_sources' = reset_citations(last_sources)
    /\ IF session_id[q].some
       THEN /\ stage' = [stage EXCEPT ![q] = "exchange"]
            /\ UNCHANGED reply
       ELSE /\ reply' = [reply EXCEPT ![q] = query_reply(q)]
            /\ stage' = [stage EXCEPT ![q] = "returned"]
    /\ UNCHANGED <<generator_vars, produced, sources, session_id>>
    /\ UNCHANGED store_vars

\* An exchange that keeps the prompt made of the text.
exchange_of_prompt(text, answer) == Exchange(prompt_of(text), answer)

\* The exchange a query leaves in its session: the text as the caller gave
\* it and the answer.
exchange_of(text, answer) == Exchange(text, answer)

\* The exchange is appended to the session in one step of the store (step 5)
\* and the answer is returned with the citations read (step 6).
AddExchange(q) ==
    /\ stage[q] = "exchange"
    /\ LET id == session_id[q].val
           exchange == exchange_of(QueryText(q), result[q].value)
       IN  /\ sessions' = [sessions EXCEPT
                  ![id] = add_exchange(sessions[id], exchange)]
           /\ session_calls' = Append(session_calls,
                  StoreCall("add", id, q, exchange, None))
    /\ reply' = [reply EXCEPT ![q] = query_reply(q)]
    /\ stage' = [stage EXCEPT ![q] = "returned"]
    /\ UNCHANGED <<generator_vars, citation_vars, sources, session_id,
                   registry_calls>>

\* The steps of generate_response inside the pipeline.
GeneratorStep(q) ==
    \/ InitialCall(q)
    \/ LoopHead(q)
    \/ ExecuteToolBlock(q)
    \/ CloseRound(q)
    \/ FinalCall(q)
    \/ NextCall(q)

\* Queries run one after another.
SeqStep(q) ==
    \/ rag_query(q, ConfiguredRounds, TRUE)
    \/ GeneratorStep(q)
    \/ ReceiveAnswer(q)
    \/ ReadSources(q)
    \/ ResetSources(q)

SeqNext == \E q \in Slots : SeqStep(q)

SeqSpec == Init /\ [][SeqNext]_vars

\* The round limit of the pipelines that run concurrently.
ConcRounds == {1}

\* Queries run concurrently: every step of one query can come between two
\* steps of the other.  With the round limit 1 a round is always followed by
\* the final call, so the call of line 199 is no step of these queries.
ConcStep(q) ==
    \/ rag_query(q, ConcRounds, FALSE)
    \/ InitialCall(q)
    \/ LoopHead(q)
    \/ ExecuteToolBlock(q)
    \/ CloseRound(q)
    \/ FinalCall(q)
    \/ ReceiveAnswer(q)
    \/ ReadSources(q)
    \/ ResetSources(q)

\* One query goes through the pipeline.
PipeNext == \E q \in MainSlots : SeqStep(q)

PipeSpec == Init /\ [][PipeNext]_vars

ConcNext == \E q \in Slots : ConcStep(q)

ConcSpec == Init /\ [][ConcNext]_vars

\* --------------------------------------- requests for unregistered tools

\* The name the generation service puts in a request: the name of a tool
\* that is not registered at the given positions, a registered one elsewhere.
RequestedName(i, unknown) ==
    IF i \in unknown THEN "unknown_tool" ELSE "search_course_content"

\* The contents of the given block types with every choice of the names.
ContentsNaming(q, k, shape) ==
    {[i \in 1 .. Len(shape) |->
         IF shape[i] = "text" THEN TextBlock(ResponseText(q, k))
         ELSE ToolUseBlock(ToolUseId(q, k, i), RequestedName(i, unknown))] :
     unknown \in SUBSET {i \in 1 .. Len(shape) : shape[i] = "tool_use"}}

\* The call is answered with a response whose requests can name a tool that
\* is not registered.
UnknownOutcomes(q) ==
    {[fault |-> FALSE, response |-> [stop_reason |-> s, content |-> c]] :
        s \in StopReasons,
        c \in UNION {ContentsNaming(q, Len(api_calls[q]) + 1, shape) :
                        shape \in ContentShapes}}

\* One invocation of generate_response with the registry as tool manager.
UnknownStep(q) ==
    \/ /\ StartQuery(q, {None}, {Some(ToolDefinitions)}, {TRUE},
                     1 .. MaxRoundLimit)
       /\ UNCHANGED <<pipeline_vars, store_vars>>
    \/ InitialCallFrom(q, UnknownOutcomes(q))
    \/ LoopHead(q)
    \/ ExecuteToolBlock(q)
    \/ CloseRound(q)
    \/ FinalCall(q)
    \/ NextCall(q)

UnknownNext == \E q \in MainSlots : UnknownStep(q)

UnknownSpec == Init /\ [][UnknownNext]_vars

\* ------------------------------------------- the search tool on its own
\* The search tool and the registry exercised directly, as the tests of the
\* tool do: executions and resets in any order.

\* The chunks of the vector store.
Chunks == {"chunk " \o ToString(i) : i \in 1 .. MaxChunks}

\* What a search can find: up to MaxChunks different chunks in some order, or
\* nothing.
FoundLists ==
    UNION {{found \in [1 .. n -> Chunks] :
               \A i, j \in 1 .. n : i # j => found[i] # found[j]} :
           n \in 0 .. MaxChunks}

\* The tool is executed: the search finds chunks and their citations are
\* stored, or the execution raises.
execute ==
    /\ Len(registry_calls) < MaxRegistryCalls
    /\ \/ \E found \in FoundLists :
            /\ last_sources' = store_citations(last_sources, found)
            /\ registry_calls' = Append(registry_calls,
                   [op |-> "execute", found |-> found, raised |-> FALSE])
       \/ /\ registry_calls' = Append(registry_calls,
                   [op |-> "execute", found |-> <<>>, raised |-> TRUE])
          /\ UNCHANGED last_sources
    /\ UNCHANGED <<generator_vars, produced, pipeline_vars, sessions,
                   session_calls>>

\* resetCitations is called on the registry.
reset_sources ==
    /\ Len(registry_calls) < MaxRegistryCalls
    /\ last_sources' = reset_citations(last_sources)
    /\ registry_calls' = Append(registry_calls,
           [op |-> "reset", found |-> <<>>, raised |-> FALSE])
    /\ UNCHANGED <<generator_vars, produced, pipeline_vars, sessions,
                   session_calls>>

RegistryNext == execute \/ reset_sources

RegistrySpec == Init /\ [][RegistryNext]_vars

\* ----------------------------------------- the Session Store on its own

\* addExchange is called directly.
AddExchangeCall ==
    /\ Len(session_calls) < MaxStoreCalls
    /\ \E id \in SessionIds, user \in UserTexts :
           LET exchange == Exchange(user, AnswerTo(user))
           IN  /\ sessions' = [sessions EXCEPT
                      ![id] = add_exchange(sessions[id], exchange)]
               /\ session_calls' = Append(session_calls,
                      StoreCall("add", id, 0, exchange, None))
    /\ UNCHANGED <<generator_vars, citation_vars, pipeline_vars,
                   registry_calls>>

\* getHistory is called directly.
GetHistoryCall ==
    /\ Len(session_calls) < MaxStoreCalls
    /\ \E id \in SessionIds :
           session_calls' = Append(session_calls,
               StoreCall("get", id, 0, Exchange("", ""),
                         get_conversation_history(sessions[id])))
    /\ UNCHANGED <<generator_vars, citation_vars, pipeline_vars,
                   registry_calls, sessions>>

StoreNext == AddExchangeCall \/ GetHistoryCall

StoreSpec == Init /\ [][StoreNext]_vars

\* ------------------------------------------- the pipeline with sessions

\* The sessions a query can be given.
AnySession == {Some(id) : id \in SessionIds}

\* What a query can be given: a session or none.
OptionalSession == {None} \cup AnySession

\* An exchange is in the store before the query starts.
SessionSeed ==
    /\ \A q \in Slots : stage[q] = "idle"
    /\ Len(session_calls) < MaxSeeds
    /\ AddExchangeCall

\* One query, with or without a session.
SessionStep(q) ==
    \/ rag_query_in(q, ConfiguredRounds, TRUE, OptionalSession)
    \/ GeneratorStep(q)
    \/ ReceiveAnswer(q)
    \/ ReadSources(q)
    \/ ResetSources(q)
    \/ AddExchange(q)

SessionNext == SessionSeed \/ \E q \in MainSlots : SessionStep(q)

SessionSpec == Init /\ [][SessionNext]_vars

\* The sessions of the queries that run concurrently: the first query is on
\* one session, every other query is on that session or on another one.
SharedSessions(q) ==
    IF q \in MainSlots THEN {Some("s1")} ELSE AnySession

\* Queries with sessions run concurrently: every step of one query can come
\* between two steps of the other.
SharedStep(q) ==
    \/ rag_query_in(q, ConcRounds, FALSE, SharedSessions(q))
    \/ InitialCall(q)
    \/ LoopHead(q)
    \/ ExecuteToolBlock(q)
    \/ CloseRound(q)
    \/ FinalCall(q)
    \/ ReceiveAnswer(q)
    \/ ReadSources(q)
    \/ ResetSources(q)
    \/ AddExchange(q)

SharedNext == \E q \in Slots : SharedStep(q)

SharedSpec == Init /\ [][SharedNext]_vars

TypeOK ==
    /\ pc \in [Slots -> {"idle", "initial_call", "loop", "execute_tools",
                         "final_call", "next_call", "done"}]
    /\ \A q \in Slots :
        /\ round_count[q] \in 0 .. MaxRoundLimit
        /\ Len(responses[q]) \in {Len(api_calls[q]), Len(api_calls[q]) - 1}
        /\ Len(api_calls[q]) <= MaxCalls
        /\ result[q].kind \in {"pending", "returned", "raised"}

\* The cap MaxCalls is never what stops a query.
CallCapIsSlack == \A q \in Slots : Len(api_calls[q]) < MaxCalls

\* ------------------------------------------------- vocabulary of the claims

Done(q) == pc[q] = "done"

\* The request advertises tools.
Advertised(call) == "tools" \in DOMAIN call

\* The positions of the tool_use blocks of a content.
ToolUsePositions(content) ==
    {i \in 1 .. Len(content) : content[i].type = "tool_use"}

\* The response asks for a tool round: it stops for tool use and carries at
\* least one tool request.
RequestsTools(response) ==
    response.stop_reason = "tool_use" /\ ToolUsePositions(response.content) # {}

\* The response asks for no tool: it does not stop for tool use, or it carries
\* no tool request.
NoToolRequest(response) ==
    response.stop_reason # "tool_use" \/ ToolUsePositions(response.content) = {}

\* The k-th call of query q was answered with a response (it did not raise).
Answered(q, k) == k <= Len(responses[q]) /\ ~responses[q][k].fault

\* No call of query q has raised.
NoFault(q) == \A k \in 1 .. Len(responses[q]) : ~responses[q][k].fault

\* The calls of query q made with no tools advertised.
ToolFreeCalls(q) == {k \in 1 .. Len(api_calls[q]) : ~Advertised(api_calls[q][k])}

\* ------------------------------------------------------------------ claims

\* C1: when the first response of a query carries no tool request, the query
\* makes exactly one generation-service call and dispatches no tool, and it
\* returns the text of that response (the text of its first block).
C1_DirectAnswer ==
    \A q \in Slots :
        (Answered(q, 1) /\ NoToolRequest(responses[q][1].response)) =>
            LET first == responses[q][1].response
            IN  /\ Len(api_calls[q]) = 1
                /\ dispatches[q] = <<>>
                /\ (Done(q) /\ Len(first.content) > 0
                        /\ first.content[1].type = "text")
                       => result[q] = Returned(first.content[1].text)

C1_Witness ==
    \E q \in Slots :
        /\ Done(q)
        /\ Answered(q, 1)
        /\ responses[q][1].response.stop_reason = "end_turn"
        /\ tool_manager[q] /\ Truthy(tools[q])
        /\ result[q] = Returned(ResponseText(q, 1))

\* C2: with a round limit N >= 1 and a tool manager, when every response asks
\* for tools and no call raises, the finished query has made exactly N + 1
\* calls and executed exactly N rounds; the last call advertises no tools and,
\* when the caller supplied tools, each of the first N calls advertises them.
C2_AlwaysTools ==
    \A q \in Slots :
        (/\ Done(q)
         /\ max_rounds[q] >= 1
         /\ tool_manager[q]
         /\ NoFault(q)
         /\ \A k \in 1 .. Len(responses[q]) :
                k <= max_rounds[q] => RequestsTools(responses[q][k].response)) =>
            /\ Len(api_calls[q]) = max_rounds[q] + 1
            /\ round_count[q] = max_rounds[q]
            /\ ~Advertised(api_calls[q][max_rounds[q] + 1])
            /\ Truthy(tools[q]) =>
                   \A k \in 1 .. max_rounds[q] :
                       /\ Advertised(api_calls[q][k])
                       /\ api_calls[q][k].tools = tools[q].val

C2_Witness ==
    \E q \in Slots :
        /\ Done(q)
        /\ max_rounds[q] = MaxRoundLimit
        /\ tool_manager[q] /\ Truthy(tools[q])
        /\ NoFault(q)
        /\ Len(api_calls[q]) = MaxRoundLimit + 1
        /\ \A k \in 1 .. Len(responses[q]) : RequestsTools(responses[q][k].response)

\* C3: with a positive round limit, a query never makes more than
\* max_rounds + 1 generation-service calls.
C3_CallBound ==
    \A q \in Slots :
        max_rounds[q] >= 1 => Len(api_calls[q]) <= max_rounds[q] + 1

C3_Witness ==
    \E q \in Slots :
        /\ max_rounds[q] = MaxRoundLimit
        /\ Len(api_calls[q]) = MaxRoundLimit + 1

\* C4: every query that was started ends, with an answer or a raised fault,
\* when each generation-service call and each tool dispatch returns.
C4_Terminates ==
    \A q \in Slots : (pc[q] # "idle") ~> Done(q)

C4_Witness ==
    \E q \in Slots :
        /\ Done(q)
        /\ max_rounds[q] = MaxRoundLimit
        /\ result[q].kind = "returned"
        /\ Len(responses[q]) = MaxRoundLimit + 1
        /\ \A k \in 1 .. Len(responses[q]) :
               /\ ~responses[q][k].fault
               /\ responses[q][k].response.stop_reason = "tool_use"

\* C5: the round counter never exceeds the round limit (a limit that is a
\* count, max_rounds >= 0), and a query whose counter was raised to the limit
\* ends only after one more call, made with no tools advertised.
C5_RoundBound ==
    \A q \in Slots :
        /\ max_rounds[q] >= 0 => round_count[q] <= max_rounds[q]
        /\ (Done(q) /\ round_count[q] >= 1 /\ round_count[q] = max_rounds[q]) =>
               /\ Len(api_calls[q]) = round_count[q] + 1
               /\ ~Advertised(api_calls[q][Len(api_calls[q])])
               /\ \A k \in 1 .. round_count[q] : Answered(q, k)

C5_Witness ==
    \E q \in Slots :
        /\ Done(q)
        /\ Truthy(tools[q])
        /\ round_count[q] = MaxRoundLimit
        /\ max_rounds[q] = MaxRoundLimit
        /\ ~Advertised(api_calls[q][Len(api_calls[q])])

\* C6: in a query whose caller supplied tools, a call with no tools advertised
\* is made at most once; it is made only after the round counter was raised to
\* max_rounds, as the last call, and every finished query whose counter was
\* raised to max_rounds has made it.
C6_ForcedFinalCallOnce ==
    \A q \in Slots :
        Truthy(tools[q]) =>
            /\ Cardinality(ToolFreeCalls(q)) <= 1
            /\ ToolFreeCalls(q) # {} =>
                   /\ round_count[q] >= 1
                   /\ round_count[q] = max_rounds[q]
                   /\ ToolFreeCalls(q) = {max_rounds[q] + 1}
                   /\ Len(api_calls[q]) = max_rounds[q] + 1
            /\ (Done(q) /\ round_count[q] >= 1 /\ round_count[q] = max_rounds[q])
                   => ToolFreeCalls(q) # {}

C6_Witness ==
    \E q \in Slots :
        /\ Done(q)
        /\ Truthy(tools[q])
        /\ max_rounds[q] = MaxRoundLimit
        /\ ToolFreeCalls(q) = {MaxRoundLimit + 1}

\* C7: the step that makes the final call ends the query: it adds one call,
\* appends no message, dispatches no tool, and, when the call is answered,
\* the query returns the text of the first block of that response whatever
\* its stop reason is.
C7_FinalCallReturns ==
    [][\A q \in Slots :
          (pc[q] = "final_call" /\ pc'[q] # "final_call") =>
              /\ pc'[q] = "done"
              /\ Len(api_calls'[q]) = Len(api_calls[q]) + 1
              /\ messages'[q] = messages[q]
              /\ dispatches'[q] = dispatches[q]
              /\ round_count'[q] = round_count[q]
              /\ LET out == responses'[q][Len(responses'[q])]
                 IN  (/\ ~out.fault
                      /\ Len(out.response.content) > 0
                      /\ out.response.content[1].type = "text")
                         => result'[q] = Returned(out.response.content[1].text)]_vars

C7_Witness ==
    \E q \in Slots :
        /\ Done(q)
        /\ max_rounds[q] >= 1
        /\ round_count[q] = max_rounds[q]
        /\ Len(responses[q]) = max_rounds[q] + 1
        /\ Answered(q, max_rounds[q] + 1)
        /\ RequestsTools(responses[q][max_rounds[q] + 1].response)
        /\ result[q] = Returned(ResponseText(q, max_rounds[q] + 1))
        /\ Len(dispatches[q]) = max_rounds[q]

\* The log is [user: query, assistant: the content of the first response,
\* user: one tool result per tool request of that content].
OneRoundLog(q, log) ==
    /\ Len(log) = 3
    /\ log[1] = [role |-> "user", content |-> query[q]]
    /\ log[2].role = "assistant"
    /\ log[2].content = responses[q][1].response.content
    /\ ToolUsePositions(log[2].content) # {}
    /\ log[3].role = "user"
    /\ Len(log[3].content) = Cardinality(ToolUsePositions(log[2].content))
    /\ \A j \in 1 .. Len(log[3].content) : log[3].content[j].type = "tool_result"

\* C8: a query that ends after exactly one tool round has made exactly two
\* generation-service calls, and the log sent with a second call always has
\* exactly the 3 messages user (the query), assistant (the tool requests),
\* user (the tool results).
C8_OneRound ==
    \A q \in Slots :
        /\ (Done(q) /\ round_count[q] = 1) => Len(api_calls[q]) = 2
        /\ Len(api_calls[q]) >= 2 => OneRoundLog(q, api_calls[q][2].messages)

C8_Witness ==
    \E q \in Slots :
        /\ Done(q)
        /\ round_count[q] = 1
        /\ max_rounds[q] = 2
        /\ result[q] = Returned(ResponseText(q, 2))
        /\ Len(api_calls[q][2].messages) = 3

\* The roles of the log are user, assistant, user, ... from a first user
\* message on.
Alternates(log) ==
    /\ Len(log) >= 1
    /\ \A i \in 1 .. Len(log) :
           log[i].role = IF i % 2 = 1 THEN "user" ELSE "assistant"

\* C9: from the start of a query on, its message log begins with a user
\* message and its roles alternate strictly, in every state and in every log
\* sent to the generation service.
C9_RolesAlternate ==
    \A q \in Slots :
        /\ pc[q] # "idle" => Alternates(messages[q])
        /\ \A k \in 1 .. Len(api_calls[q]) : Alternates(api_calls[q][k].messages)

\* The no-results abort of a second round: the log ends with the assistant
\* message of the aborted round.
C9_Witness ==
    \E q \in Slots :
        /\ Done(q)
        /\ round_count[q] = 1
        /\ Len(messages[q]) = 4
        /\ tool_results[q] = <<>>

\* Every assistant message of the log is followed by a user message that holds
\* exactly one tool result for each of its tool requests, and nothing else.
Paired(log) ==
    \A i \in 1 .. Len(log) :
        log[i].role = "assistant" =>
            /\ i + 1 <= Len(log)
            /\ log[i + 1].role = "user"
            /\ LET requests == log[i].content
                   results == log[i + 1].content
               IN  /\ Len(results) = Cardinality(ToolUsePositions(requests))
                   /\ \A p \in ToolUsePositions(requests) :
                          Cardinality({j \in 1 .. Len(results) :
                              /\ results[j].type = "tool_result"
                              /\ results[j].tool_use_id = requests[p].id}) = 1

\* The tool results the log holds for the correlation id.
ResultsFor(log, id) ==
    {ij \in (2 .. Len(log)) \X (1 .. MaxBlocks) :
        /\ log[ij[1]].role = "user"
        /\ ij[2] <= Len(log[ij[1]].content)
        /\ log[ij[1]].content[ij[2]].tool_use_id = id}

\* C10: every log sent to the generation service pairs each tool request with
\* exactly one tool result in the next message, and when a call is about to be
\* made every dispatch so far has its result in the log.
C10_ResultsBeforeCall ==
    \A q \in Slots :
        /\ \A k \in 1 .. Len(api_calls[q]) : Paired(api_calls[q][k].messages)
        /\ pc[q] \in {"next_call", "final_call"} =>
               /\ Paired(messages[q])
               /\ \A d \in 1 .. Len(dispatches[q]) :
                      Cardinality(ResultsFor(messages[q], dispatches[q][d].id)) = 1

C10_Witness ==
    \E q \in Slots :
        /\ Len(api_calls[q]) >= 2
        /\ Len(api_calls[q][2].messages[3].content) = 2
        /\ dispatches[q][1].outcome = "raise"
        /\ dispatches[q][2].outcome = "ok"

\* The tool requests of a content, in the order of the content.
ToolRequests(content) == SelectSeq(content, LAMBDA b : b.type = "tool_use")

\* The dispatches of round r of query q, in the order they were made.
RoundDispatches(q, r) == SelectSeq(dispatches[q], LAMBDA d : d.round = r)

\* The i-th result is a tool result carrying the id of the i-th request.
InRequestOrder(requests, results) ==
    /\ Len(results) = Len(requests)
    /\ \A j \in 1 .. Len(results) :
           /\ results[j].type = "tool_result"
           /\ results[j].tool_use_id = requests[j].id

\* C11: within a round the tools are dispatched in the order of the requests
\* of the response, and the i-th tool result, of the results being collected
\* and of every user message of tool results, carries the tool_use_id of the
\* i-th request, whether its dispatch returned or raised.
C11_ResultsInRequestOrder ==
    \A q \in Slots :
        /\ \A r \in 1 .. Len(responses[q]) :
               LET made == RoundDispatches(q, r)
                   requests == ToolRequests(responses[q][r].response.content)
               IN  /\ Len(made) <= Len(requests)
                   /\ \A j \in 1 .. Len(made) : made[j].id = requests[j].id
        /\ pc[q] = "execute_tools" =>
               LET made == RoundDispatches(q, round_count[q] + 1)
               IN  /\ Len(tool_results[q]) = Len(made)
                   /\ \A j \in 1 .. Len(made) :
                          tool_results[q][j].tool_use_id = made[j].id
        /\ \A i \in 2 .. Len(messages[q]) :
               messages[q][i].role = "user" =>
                   /\ InRequestOrder(ToolRequests(messages[q][i - 1].content),
                                     messages[q][i].content)
                   /\ InRequestOrder(RoundDispatches(q, i \div 2),
                                     messages[q][i].content)
        /\ \A k \in 1 .. Len(api_calls[q]) :
               LET log == api_calls[q][k].messages
               IN  \A i \in 2 .. Len(log) :
                       log[i].role = "user" =>
                           InRequestOrder(ToolRequests(log[i - 1].content),
                                          log[i].content)

\* A round of two requests whose first dispatch returned and whose second
\* raised: the results sent with the second call follow the requests.
C11_Witness ==
    \E q \in Slots :
        /\ Len(api_calls[q]) >= 2
        /\ Len(RoundDispatches(q, 1)) = 2
        /\ dispatches[q][1].outcome = "ok"
        /\ dispatches[q][2].outcome = "raise"
        /\ LET results == api_calls[q][2].messages[3].content
           IN  /\ results[1].tool_use_id = ToolUseId(q, 1, 1)
               /\ results[2].tool_use_id = ToolUseId(q, 1, 2)

\* The string holds the literal as a substring.
Contains(string, literal) ==
    \E i \in 1 .. (Len(string) - Len(literal) + 1) :
        SubSeq(string, i, i + Len(literal) - 1) = literal

\* The positions <<r, j>> of the dispatches that raised: the j-th dispatch of
\* round r.
RaisedDispatches(q) ==
    {rj \in (1 .. MaxRoundLimit) \X (1 .. MaxBlocks) :
        /\ rj[2] <= Len(RoundDispatches(q, rj[1]))
        /\ RoundDispatches(q, rj[1])[rj[2]].outcome = "raise"}

\* The round r of query q is closed: its results were appended to the log.
RoundClosed(q, r) == r <= round_count[q]

\* C12: when a tool dispatch raises, its tool result holds the literal
\* "Tool execution failed"; once the round is closed the result is in the log
\* and it is in the log sent with the next call; the query goes on, and when
\* it ends it gives what the last call gave: the text of the last response,
\* not the fault of the tool.
C12_ToolFaultContained ==
    \A q \in Slots :
        /\ \A rj \in RaisedDispatches(q) :
               LET r == rj[1]
                   j == rj[2]
               IN  /\ (pc[q] = "execute_tools" /\ r = round_count[q] + 1) =>
                          /\ Contains(tool_results[q][j].content,
                                      "Tool execution failed")
                          /\ result[q] = Pending
                   /\ (pc[q] # "execute_tools" \/ r <= round_count[q]) =>
                          /\ RoundClosed(q, r)
                          /\ Len(messages[q]) >= 2 * r + 1
                          /\ messages[q][2 * r + 1].role = "user"
                          /\ Contains(messages[q][2 * r + 1].content[j].content,
                                      "Tool execution failed")
                   /\ Len(api_calls[q]) >= r + 1 =>
                          Contains(api_calls[q][r + 1].messages[2 * r + 1]
                                       .content[j].content,
                                   "Tool execution failed")
                   /\ Done(q) => Len(api_calls[q]) >= r + 1
        /\ (Done(q) /\ RaisedDispatches(q) # {}) =>
               LET out == responses[q][Len(responses[q])]
               IN  /\ out.fault => result[q] = Raised("APIError")
                   /\ (/\ ~out.fault
                       /\ Len(out.response.content) > 0
                       /\ out.response.content[1].type = "text")
                          => result[q] = Returned(out.response.content[1].text)

\* Every dispatch of a query of two rounds raised, and the query returned the
\* text of the final response.
C12_Witness ==
    \E q \in Slots :
        /\ Done(q)
        /\ round_count[q] = 2
        /\ \A d \in 1 .. Len(dispatches[q]) : dispatches[q][d].outcome = "raise"
        /\ api_calls[q][3].messages[5].content[1].content
               = "Tool execution failed: tool error"
        /\ result[q] = Returned(ResponseText(q, 3))

\* C13: when the for loop of a round is over, every tool request of the
\* response has been dispatched, whatever the dispatches before it did, and in
\* the log of a closed round the result of each dispatch that returned is the
\* output of the tool, unchanged.
C13_FaultDoesNotStopRound ==
    \A q \in Slots :
        /\ (/\ pc[q] = "execute_tools"
            /\ block_index[q] > Len(current_response[q].content)) =>
               Len(RoundDispatches(q, round_count[q] + 1))
                   = Len(ToolRequests(current_response[q].content))
        /\ \A r \in 1 .. round_count[q] :
               LET made == RoundDispatches(q, r)
                   requests == ToolRequests(responses[q][r].response.content)
                   results == messages[q][2 * r + 1].content
               IN  /\ Len(made) = Len(requests)
                   /\ Len(results) = Len(requests)
                   /\ \A j \in 1 .. Len(made) :
                          made[j].outcome = "ok" =>
                              results[j] = [type |-> "tool_result",
                                            tool_use_id |-> requests[j].id,
                                            content |-> ToolOutput(requests[j])]

\* A closed round of two requests whose first dispatch raised: the second
\* request was dispatched and its output is in the log.
C13_Witness ==
    \E q \in Slots :
        /\ round_count[q] >= 1
        /\ Len(RoundDispatches(q, 1)) = 2
        /\ RoundDispatches(q, 1)[1].outcome = "raise"
        /\ RoundDispatches(q, 1)[2].outcome = "ok"
        /\ messages[q][3].content[2].content
               = ToolOutput(ToolUseBlock(ToolUseId(q, 1, 2), "search_course_content"))

\* The tool result is marked as an error.
MarkedError(entry) == "is_error" \in DOMAIN entry /\ entry.is_error

\* C14: in the log of every closed round, the tool result of a dispatch that
\* raised is marked as an error (is_error = true) and the tool result of a
\* dispatch that returned is not.
C14_ErrorFlag ==
    \A q \in Slots :
        \A r \in 1 .. round_count[q] :
            LET made == RoundDispatches(q, r)
                results == messages[q][2 * r + 1].content
            IN  \A j \in 1 .. Len(made) :
                    MarkedError(results[j]) <=> made[j].outcome = "raise"

\* C15: the step that closes a round whose dispatch gave no result ends the
\* query: it appends no message, leaves the round counter, makes no call, and
\* the query returns the text of the last response, or "Tool execution failed"
\* when that response has no content; a query that has ended makes no call
\* and no dispatch any more.
C15_NoResultsAbort ==
    [][\A q \in Slots :
          /\ (/\ pc[q] = "execute_tools"
              /\ block_index[q] > Len(current_response[q].content)
              /\ Len(tool_results[q]) = 0
              /\ pc'[q] # pc[q]) =>
                 /\ pc'[q] = "done"
                 /\ messages'[q] = messages[q]
                 /\ messages[q][Len(messages[q])].role = "assistant"
                 /\ round_count'[q] = round_count[q]
                 /\ api_calls'[q] = api_calls[q]
                 /\ result'[q] =
                        IF Len(current_response[q].content) > 0
                        THEN Returned(current_response[q].content[1].text)
                        ELSE Returned("Tool execution failed")
          /\ Done(q) =>
                 /\ api_calls'[q] = api_calls[q]
                 /\ dispatches'[q] = dispatches[q]
                 /\ messages'[q] = messages[q]
                 /\ result'[q] = result[q]]_vars

\* A first response that stops for tool use with no content: the query ends
\* with the fallback string after one call.
C15_Witness ==
    \E q \in Slots :
        /\ Done(q)
        /\ round_count[q] = 0
        /\ Len(api_calls[q]) = 1
        /\ Len(messages[q]) = 2
        /\ dispatches[q] = <<>>
        /\ result[q] = Returned("Tool execution failed")

\* The step is a generation-service call of query q that raised.
CallRaised(q) ==
    /\ Len(responses'[q]) = Len(responses[q]) + 1
    /\ responses'[q][Len(responses'[q])].fault

IsPrefix(log, other) ==
    Len(log) <= Len(other) /\ log = SubSeq(other, 1, Len(log))

DispatchedIds(q) == {dispatches[q][d].id : d \in 1 .. Len(dispatches[q])}

\* Every message of the log comes from query q: the first is its query text,
\* each assistant message holds the content of its response of that round,
\* and each tool result answers one of its own dispatches.
OwnLog(q, log) ==
    \A i \in 1 .. Len(log) :
        IF i = 1 THEN log[i] = [role |-> "user", content |-> query[q]]
        ELSE IF i % 2 = 0
        THEN /\ log[i].role = "assistant"
             /\ Answered(q, i \div 2)
             /\ log[i].content = responses[q][i \div 2].response.content
        ELSE /\ log[i].role = "user"
             /\ Len(log[i].content) >= 1
             /\ \A j \in 1 .. Len(log[i].content) :
                    /\ log[i].content[j].tool_use_id \in DispatchedIds(q)
                    /\ log[i].content[j].tool_use_id
                           = RoundDispatches(q, i \div 2)[j].id

\* C18: with two queries running concurrently on one generator, in every
\* state the log of each query, and every log it sent to the generation
\* service, holds only that query's own user message, responses and tool
\* results.
C18_LogsStayApart ==
    \A q \in Slots :
        /\ OwnLog(q, messages[q])
        /\ \A k \in 1 .. Len(api_calls[q]) : OwnLog(q, api_calls[q][k].messages)

\* Both queries are inside generate_response at once, each with a closed tool
\* round in its log and about to make its final call.
C18_Witness ==
    /\ \A q \in Slots :
           /\ pc[q] = "final_call"
           /\ Len(messages[q]) = 3
           /\ Len(dispatches[q]) >= 1
    /\ messages[1][3].content[1].tool_use_id = ToolUseId(1, 1, 1)
    /\ messages[2][3].content[1].tool_use_id = ToolUseId(2, 1, 1)

\* The lists of the sequence joined into one list.
RECURSIVE Joined(_)
Joined(lists) ==
    IF Len(lists) = 0 THEN <<>> ELSE Head(lists) \o Joined(Tail(lists))

\* C19: with queries run one after another, the citations returned by a
\* query are exactly the citations its own tool executions emitted, all of
\* them and no other; a query that executed no tool returns none.
C19_OwnCitationsInSequence ==
    \A q \in Slots :
        stage[q] = "returned" =>
            reply[q].value.sources = Joined(produced[q])

\* The elements of a sequence.
Range(list) == {list[i] : i \in 1 .. Len(list)}

\* C20: with two queries running concurrently on one registry, every citation
\* returned to a query was emitted by a tool execution of that query, and the
\* citations of its last execution are among those returned to it: the other
\* query neither receives nor clears them.
C20_OwnCitationsConcurrently ==
    \A q \in Slots :
        stage[q] = "returned" =>
            /\ Range(reply[q].value.sources) \subseteq Range(Joined(produced[q]))
            /\ Len(produced[q]) > 0 =>
                   Range(produced[q][Len(produced[q])])
                       \subseteq Range(reply[q].value.sources)

\* The last call made on the search tool and the registry.
LastRegistryCall == registry_calls[Len(registry_calls)]

\* C21: after any sequence of executions of the search tool, the stored
\* citations are those of the last execution that returned: one citation per
\* chunk it found, in the order found, and none when it found no chunk.
C21_CitationsOfLastExecution ==
    (/\ Len(registry_calls) > 0
     /\ LastRegistryCall.op = "execute"
     /\ ~LastRegistryCall.raised) =>
        /\ Len(last_sources) = Len(LastRegistryCall.found)
        /\ \A i \in 1 .. Len(last_sources) :
               last_sources[i] = "source of " \o LastRegistryCall.found[i]

\* An execution that found two chunks, then one that found none: nothing is
\* stored.
C21_Witness ==
    /\ Len(registry_calls) = 2
    /\ registry_calls[1].op = "execute"
    /\ Len(registry_calls[1].found) = 2
    /\ registry_calls[2].op = "execute"
    /\ ~registry_calls[2].raised
    /\ registry_calls[2].found = <<>>
    /\ last_sources = <<>>

\* C22: after resetCitations the registry holds no citation, whatever it held
\* before and whether it is the first reset or a reset right after another;
\* the reset always returns.
C22_ResetIdempotent ==
    \A n \in 1 .. Len(registry_calls) :
        registry_calls[n].op = "reset" =>
            /\ ~registry_calls[n].raised
            /\ n = Len(registry_calls) => last_sources = <<>>

\* Two resets in a row after an execution that stored two citations.
C22_Witness ==
    /\ Len(registry_calls) = 3
    /\ registry_calls[1].op = "execute"
    /\ Len(registry_calls[1].found) = 2
    /\ registry_calls[2].op = "reset"
    /\ registry_calls[3].op = "reset"
    /\ last_sources = <<>>

\* The exchanges added to the session by the first n calls on the store, in
\* the order of the calls.
RECURSIVE AddedBy(_, _)
AddedBy(id, n) ==
    IF n = 0 THEN <<>>
    ELSE IF session_calls[n].op = "add" /\ session_calls[n].id = id
         THEN Append(AddedBy(id, n - 1), session_calls[n].exchange)
         ELSE AddedBy(id, n - 1)

\* The last exchanges of a list, at most `count` of them.
LastOf(list, count) ==
    IF Len(list) > count THEN SubSeq(list, Len(list) - count + 1, Len(list))
    ELSE list

\* C23: a session holds at most N exchanges, and they are the most recently
\* added ones in the order they were added; getHistory returns none for a
\* session to which nothing was added, and after two exchanges it returns both,
\* the older first, each as a "User:" line followed by an "Assistant:" line.
C23_BoundedHistoryInOrder ==
    /\ \A id \in SessionIds :
           /\ Len(sessions[id]) <= MaxHistory
           /\ sessions[id] = LastOf(AddedBy(id, Len(session_calls)), MaxHistory)
    /\ \A n \in 1 .. Len(session_calls) :
           session_calls[n].op = "get" =>
               LET added == AddedBy(session_calls[n].id, n - 1)
               IN  /\ Len(added) = 0 => session_calls[n].value = None
                   /\ Len(added) = 2 =>
                          session_calls[n].value =
                              Some("User: " \o added[1].user
                                   \o "\nAssistant: " \o added[1].assistant
                                   \o "\nUser: " \o added[2].user
                                   \o "\nAssistant: " \o added[2].assistant)

\* More than N different exchanges were added to one session, so the oldest
\* was evicted, and the history was read after the second.
C23_Witness ==
    /\ Len(session_calls) = MaxHistory + 2
    /\ session_calls[1].op = "add"
    /\ session_calls[2].op = "add"
    /\ session_calls[3].op = "get"
    /\ \A n \in 1 .. 3 : session_calls[n].id = "s1"
    /\ session_calls[1].exchange # session_calls[2].exchange
    /\ Len(AddedBy("s1", Len(session_calls))) > MaxHistory
    /\ sessions["s1"][1] # session_calls[1].exchange

\* The queries that completed on the session.
CompletedOn(id) ==
    {q \in Slots : stage[q] = "returned" /\ session_id[q] = Some(id)}

StoreCallsBy(q, op) ==
    {n \in 1 .. Len(session_calls) :
        session_calls[n].by = q /\ session_calls[n].op = op}

\* C25: a query given a session fetches the history of that session once,
\* and generation runs with what it fetched; when it completes it has appended
\* one exchange, its text as the caller gave it with the answer returned, to
\* that session, and the other sessions hold what they held.  A query given
\* no session makes no call on the Session Store.
C25_OneReadOneAppend ==
    /\ \A id \in SessionIds :
           sessions[id] = LastOf(AddedBy(id, Len(session_calls)), MaxHistory)
    /\ \A q \in Slots :
           /\ session_id[q].some =>
                  /\ Cardinality(StoreCallsBy(q, "get")) = 1
                  /\ \A n \in StoreCallsBy(q, "get") :
                         /\ session_calls[n].id = session_id[q].val
                         /\ system_content[q] =
                                build_system_content(session_calls[n].value)
                         /\ \A m \in StoreCallsBy(q, "add") : n < m
                  /\ Cardinality(StoreCallsBy(q, "add")) =
                         IF stage[q] = "returned" THEN 1 ELSE 0
                  /\ \A m \in StoreCallsBy(q, "add") :
                         /\ session_calls[m].id = session_id[q].val
                         /\ session_calls[m].exchange =
                                Exchange(QueryText(q), reply[q].value.answer)
           /\ ~session_id[q].some =>
                  /\ StoreCallsBy(q, "get") = {}
                  /\ StoreCallsBy(q, "add") = {}

\* A query completed on a session that held an exchange: it read that
\* exchange and added its own after it.
C25_Witness ==
    \E q \in Slots :
        /\ stage[q] = "returned"
        /\ session_id[q] = Some("s1")
        /\ Len(sessions["s1"]) = 2
        /\ sessions["s1"][2].user = QueryText(q)
        /\ sessions["s2"] = <<>>
        /\ Contains(system_content[q], "Previous conversation")

\* The positions <<r, j>> of the dispatches of a name that is not registered.
UnknownDispatches(q) ==
    {rj \in (1 .. MaxRoundLimit) \X (1 .. MaxBlocks) :
        /\ rj[2] <= Len(RoundDispatches(q, rj[1]))
        /\ RoundDispatches(q, rj[1])[rj[2]].name \notin RegisteredTools}

\* C26: the dispatch of a name that is not registered returns, it does not
\* raise; its result, carrying the "not found" message and the id of the
\* request, is added to the results of the round, and the round is closed
\* with it: the result is in the log, the query is not over before it has
\* made the next call, and that call is sent the result.
C26_UnknownToolContained ==
    \A q \in Slots :
        \A rj \in UnknownDispatches(q) :
            LET r == rj[1]
                j == rj[2]
                request == ToolRequests(responses[q][r].response.content)[j]
                entry == [type |-> "tool_result",
                          tool_use_id |-> request.id,
                          content |-> "Tool '" \o request.name \o "' not found"]
            IN  /\ RoundDispatches(q, r)[j].outcome = "not_found"
                /\ Contains(entry.content, "not found")
                /\ (pc[q] = "execute_tools" /\ r = round_count[q] + 1) =>
                       /\ Len(tool_results[q]) >= j
                       /\ tool_results[q][j] = entry
                       /\ result[q] = Pending
                /\ (pc[q] # "execute_tools" \/ r <= round_count[q]) =>
                       /\ RoundClosed(q, r)
                       /\ Len(messages[q]) >= 2 * r + 1
                       /\ messages[q][2 * r + 1].role = "user"
                       /\ Len(messages[q][2 * r + 1].content) >= j
                       /\ messages[q][2 * r + 1].content[j] = entry
                /\ Len(api_calls[q]) >= r + 1 =>
                       /\ Len(api_calls[q][r + 1].messages) >= 2 * r + 1
                       /\ api_calls[q][r + 1].messages[2 * r + 1].content[j]
                              = entry
                /\ Done(q) => Len(api_calls[q]) >= r + 1

\* The only request of the first response named a tool that is not
\* registered; the second call was made and the query returned its text.
C26_Witness ==
    \E q \in Slots :
        /\ Done(q)
        /\ Len(dispatches[q]) = 1
        /\ dispatches[q][1].name = "unknown_tool"
        /\ Len(api_calls[q]) = 2
        /\ api_calls[q][2].messages[3].content[1].content
               = "Tool 'unknown_tool' not found"
        /\ result[q] = Returned(ResponseText(q, 2))

\* The k-th response of query q has been acted on: the branch of lines 240-251
\* or the loop head of lines 167-173 has run for it.
Handled(q, k) ==
    \/ Len(responses[q]) > k
    \/ Len(responses[q]) = k /\ pc[q] \notin {"initial_call", "loop"}

\* The k-th response of query q arrived before the round limit, at a query
\* with a tool manager.
BeforeLimit(q, k) ==
    /\ k <= Len(responses[q])
    /\ Answered(q, k)
    /\ tool_manager[q]
    /\ k <= max_rounds[q]

\* The for loop of round k of query q is over.
DispatchOver(q, k) ==
    \/ pc[q] # "execute_tools"
    \/ round_count[q] >= k
    \/ block_index[q] > Len(current_response[q].content)

\* What was done with the k-th response of query q.  With `round`, a tool
\* round was started: the assistant message with the content of the response
\* is the next message of the log and, once the for loop is over, every
\* request of the response has been dispatched, in order.  Without, the query
\* ended with this response: no message was appended, nothing was dispatched
\* and the text of the response was returned.
HandledAs(q, k, round) ==
    LET response == responses[q][k].response
        requests == ToolRequests(response.content)
        made == RoundDispatches(q, k)
    IN  IF round
        THEN /\ Len(messages[q]) >= 2 * k
             /\ messages[q][2 * k] =
                    [role |-> "assistant", content |-> response.content]
             /\ DispatchOver(q, k) =>
                    /\ Len(made) = Len(requests)
                    /\ \A j \in 1 .. Len(made) : made[j].id = requests[j].id
        ELSE /\ Done(q)
             /\ Len(responses[q]) = k
             /\ Len(messages[q]) = 2 * k - 1
             /\ made = <<>>
             /\ (Len(response.content) > 0
                    /\ response.content[1].type = "text")
                   => result[q] = Returned(response.content[1].text)

\* C27: a response before the round limit starts a tool round exactly when
\* it carries one or more tool requests: then the assistant message with its
\* content is appended and every request is dispatched; when it carries none,
\* its text is returned at once, with no message appended and no dispatch.
C27_RoundIffRequests ==
    \A q \in Slots :
        \A k \in 1 .. Len(responses[q]) :
            (BeforeLimit(q, k) /\ Handled(q, k)) =>
                HandledAs(q, k, RequestsTools(responses[q][k].response))

\* C27, amended: a response before the round limit starts a tool round
\* exactly when its stop reason is tool use, whatever its content: then the
\* assistant message with its content is appended and every request in it is
\* dispatched; with any other stop reason its text is returned at once, with
\* no message appended and no dispatch.
C27_RoundIffStopReason ==
    \A q \in Slots :
        \A k \in 1 .. Len(responses[q]) :
            (BeforeLimit(q, k) /\ Handled(q, k)) =>
                HandledAs(q, k, responses[q][k].response.stop_reason = "tool_use")

\* The second response stopped for tool use with a text block and no
\* request: its content was appended as an assistant message, nothing was
\* dispatched for it and its text was returned.
C27_Witness ==
    \E q \in Slots :
        /\ Done(q)
        /\ max_rounds[q] = 2
        /\ tool_manager[q]
        /\ Len(responses[q]) = 2
        /\ Answered(q, 2)
        /\ responses[q][2].response.stop_reason = "tool_use"
        /\ ToolUsePositions(responses[q][2].response.content) = {}
        /\ Len(messages[q]) = 4
        /\ messages[q][4].role = "assistant"
        /\ RoundDispatches(q, 2) = <<>>
        /\ result[q] = Returned(ResponseText(q, 2))

\* The responses of query q that do not stop for tool use.
ToolFreeResponses(q) ==
    {k \in 1 .. Len(responses[q]) :
        Answered(q, k) /\ responses[q][k].response.stop_reason # "tool_use"}

\* C28: a response that does not stop for tool use is the last one of its
\* query, whatever the round limit: no call follows it and nothing is
\* dispatched for it.  A query that returned has made one call more than it
\* completed rounds, and when a response within the round limit did not stop
\* for tool use, no call was made without the tools of the caller.
C28_StopsWithoutToolUse ==
    \A q \in Slots :
        /\ \A k \in ToolFreeResponses(q) :
               /\ Len(api_calls[q]) = k
               /\ round_count[q] = k - 1
               /\ RoundDispatches(q, k) = <<>>
        /\ (Done(q) /\ result[q].kind = "returned") =>
               Len(api_calls[q]) = round_count[q] + 1
        /\ (/\ Truthy(tools[q])
            /\ \E k \in ToolFreeResponses(q) : k <= max_rounds[q]) =>
               ToolFreeCalls(q) = {}

\* With a limit of two rounds the second response did not stop for tool
\* use: the query returned its text after one round and two calls, both with
\* tools.
C28_Witness ==
    \E q \in Slots :
        /\ Done(q)
        /\ max_rounds[q] = 2
        /\ Truthy(tools[q])
        /\ round_count[q] = 1
        /\ Len(dispatches[q]) = 1
        /\ ToolFreeResponses(q) = {2}
        /\ Len(api_calls[q]) = 2
        /\ ToolFreeCalls(q) = {}
        /\ result[q] = Returned(ResponseText(q, 2))

\* The tools passed to the k-th call of query q: none to the final call made
\* when the round limit is reached, the tools of the caller to any other.
PassedTools(q, k) ==
    IF k >= 2 /\ k = max_rounds[q] + 1 THEN None ELSE tools[q]

\* C29: a request has the key tools, holding the list passed to the call, and
\* the key tool_choice, holding auto, when the list passed to the call is not
\* empty; when None or an empty list is passed it has neither key.
C29_ToolsKeysIffNonEmpty ==
    \A q \in Slots :
        \A k \in 1 .. Len(api_calls[q]) :
            LET request == api_calls[q][k]
                passed == PassedTools(q, k)
            IN  IF passed.some /\ Len(passed.val) > 0
                THEN /\ "tools" \in DOMAIN request
                     /\ "tool_choice" \in DOMAIN request
                     /\ request.tools = passed.val
                     /\ request.tool_choice = [type |-> "auto"]
                ELSE /\ "tools" \notin DOMAIN request
                     /\ "tool_choice" \notin DOMAIN request

\* A query given an empty list of tools made its call: the request has
\* neither key.
C29_Witness ==
    \E q \in Slots :
        /\ tools[q] = Some(<<>>)
        /\ Len(api_calls[q]) = 1
        /\ DOMAIN api_calls[q][1] \cap {"tools", "tool_choice"} = {}

\* C30: without a tool manager, a first response that stops for tool use
\* starts no round: nothing is dispatched, no second call is made and no
\* message is appended, and the query ends with the text of that response,
\* the text of its first block.
C30_NoManagerNoRound ==
    \A q \in Slots :
        (/\ ~tool_manager[q]
         /\ Answered(q, 1)
         /\ responses[q][1].response.stop_reason = "tool_use") =>
            LET first == responses[q][1].response
            IN  /\ Done(q)
                /\ dispatches[q] = <<>>
                /\ Len(api_calls[q]) = 1
                /\ Len(messages[q]) = 1
                /\ round_count[q] = 0
                /\ (Len(first.content) > 0 /\ first.content[1].type = "text")
                       => result[q] = Returned(first.content[1].text)

\* Without a tool manager the first response stopped for tool use with a
\* text block and a tool request, and its text was returned.
C30_Witness ==
    \E q \in Slots :
        /\ ~tool_manager[q]
        /\ Truthy(tools[q])
        /\ max_rounds[q] = 2
        /\ Answered(q, 1)
        /\ RequestsTools(responses[q][1].response)
        /\ Len(api_calls[q]) = 1
        /\ dispatches[q] = <<>>
        /\ result[q] = Returned(ResponseText(q, 1))

\* C31: the system content of every request holds the block "Previous
\* conversation:" followed by the history when the history given to the query
\* is a non-empty string, and is the fixed instructions alone when the history
\* is None or the empty string.
C31_HistoryBlockIffNonEmpty ==
    \A q \in Slots :
        \A k \in 1 .. Len(api_calls[q]) :
            LET given == conversation_history[q]
                system == api_calls[q][k].system
            IN  IF given.some /\ Len(given.val) > 0
                THEN /\ system = SYSTEM_PROMPT
                                   \o "\n\nPrevious conversation:\n"
                                   \o given.val
                     /\ Contains(system, "Previous conversation:")
                ELSE /\ system = SYSTEM_PROMPT
                     /\ ~Contains(system, "Previous conversation:")

\* A query given the empty string as its history made two calls, both with
\* the fixed instructions alone.
C31_Witness ==
    \E q \in Slots :
        /\ conversation_history[q] = Some("")
        /\ Len(api_calls[q]) = 2
        /\ api_calls[q][1].system = SYSTEM_PROMPT
        /\ api_calls[q][2].system = SYSTEM_PROMPT

\* The specification of the round loop.  One query runs with the registry's
\* tools advertised and no history; the round limit, the tool manager, the
\* responses, the tool outcomes and the faults vary as in Spec.
RoundsSpec == Init /\ [][FairNext]_vars

\* The query made three calls in two tool rounds.
TwoRounds(q) == round_count[q] = 2 /\ Len(api_calls[q]) = 3

FailedWithCitations(p) ==
    /\ stage[p] = "failed"
    /\ reply[p] = Raised("APIError")
    /\ Len(Joined(produced[p])) > 0

\* C33: with queries run one after another on one registry, a query that
\* executed no tool returns an empty citation list also when the other query
\* recorded citations and then failed with a generation-service fault.
C33_NoCitationsLeftByFailure ==
    \A q \in Slots :
        \A p \in Slots \ {q} :
            (/\ FailedWithCitations(p)
             /\ stage[q] = "returned"
             /\ dispatches[q] = <<>>) =>
                reply[q].value.sources = <<>>

\* generate_response of query q, which was given a session, ended with a
\* generation-service fault.
FailedOnSession(q) ==
    /\ session_id[q].some
    /\ stage[q] # "generate"
    /\ result[q] = Raised("APIError")

\* C34: a query that fails with a generation-service fault appends no
\* exchange to the Session Store: its session holds the exchanges it held
\* when the query fetched its history, the history read after the failure is
\* the history the query fetched, and the other sessions hold what they held.
C34_FailureLeavesStore ==
    \A q \in Slots :
        FailedOnSession(q) =>
            /\ stage[q] = "failed"
            /\ StoreCallsBy(q, "add") = {}
            /\ \A n \in StoreCallsBy(q, "get") :
                   /\ get_conversation_history(sessions[session_calls[n].id])
                          = session_calls[n].value
                   /\ \A id \in SessionIds :
                          sessions[id] = LastOf(AddedBy(id, n), MaxHistory)

\* A query on a session that held one exchange failed at its second call,
\* after a tool round: the session still holds that one exchange.
C34_Witness ==
    \E q \in Slots :
        /\ FailedOnSession(q)
        /\ stage[q] = "failed"
        /\ session_id[q] = Some("s1")
        /\ Len(sessions["s1"]) = 1
        /\ Len(last_sources) > 0
        /\ Cardinality(StoreCallsBy(q, "get")) = 1

\* The tool rounds query q has started: one assistant message was appended
\* to the log for each (line 173).
StartedRounds(q) == Len(messages[log_of(q)]) \div 2

\* The ids of the tool requests of the first k responses of query q, in the
\* order of the responses and of their blocks.
RECURSIVE RequestedIds(_, _)
RequestedIds(q, k) ==
    IF k = 0 \/ k > Len(responses[q]) \/ responses[q][k].fault THEN <<>>
    ELSE RequestedIds(q, k - 1)
             \o [j \in 1 .. Len(ToolRequests(responses[q][k].response.content))
                     |-> ToolRequests(responses[q][k].response.content)[j].id]

\* The ids of the dispatches of query q, in the order they were made.
DispatchIds(q) == [d \in 1 .. Len(dispatches[q]) |-> dispatches[q][d].id]

\* C35: every tool request of a response that started a tool round is
\* dispatched exactly once.  No two dispatches of a query carry the same
\* request; a dispatch is made in the round its response started; and once
\* the for loop of the last started round is over, the dispatches of the
\* query are the tool requests of the responses that started a round, one
\* for one and in their order, so that their number is the total number of
\* tool_use blocks of those responses.
C35_DispatchedExactlyOnce ==
    \A q \in Slots :
        /\ \A d, e \in 1 .. Len(dispatches[q]) :
               dispatches[q][d].id = dispatches[q][e].id => d = e
        /\ \A d \in 1 .. Len(dispatches[q]) :
               LET r == dispatches[q][d].round
               IN  /\ r <= StartedRounds(q)
                   /\ r <= Len(responses[q])
                   /\ \E j \in ToolUsePositions(responses[q][r].response.content) :
                          responses[q][r].response.content[j].id
                              = dispatches[q][d].id
        /\ pc[q] # "execute_tools" =>
               /\ StartedRounds(q) <= Len(responses[q])
               /\ DispatchIds(q) = RequestedIds(q, StartedRounds(q))

\* A query of two rounds with two requests in each response, one dispatch of
\* each round having raised: four dispatches were made for the four requests.
C35_Witness ==
    \E q \in Slots :
        /\ Done(q)
        /\ StartedRounds(q) = 2
        /\ Len(dispatches[q]) = 4
        /\ Len(RequestedIds(q, 2)) = 4
        /\ dispatches[q][1].outcome = "raise"
        /\ dispatches[q][4].outcome = "raise"
        /\ Len(RoundDispatches(q, 2)) = 2

\* The positions of a query inside _execute_sequential_rounds.
InRounds == {"loop", "execute_tools", "final_call", "next_call"}

\* The step with which query q leaves _execute_sequential_rounds is one of
\* the returns inside the while loop (lines 170, 180-184, 196) or a fault of
\* a call made inside it (lines 193, 199).
LeavesInsideLoop(q) ==
    \/ /\ pc[q] = "loop"
       /\ round_count[q] < max_rounds[q]
       /\ current_response[q].stop_reason # "tool_use"
       /\ result'[q] = first_text(current_response[q])
    \/ /\ pc[q] = "execute_tools"
       /\ tool_results[q] = <<>>
       /\ result'[q] = abort_return(current_response[q])
    \/ /\ pc[q] = "final_call"
       /\ Len(responses'[q]) = Len(responses[q]) + 1
       /\ LET out == responses'[q][Len(responses'[q])]
          IN  result'[q] = IF out.fault THEN Raised("APIError")
                           ELSE final_return(out.response)
    \/ /\ pc[q] = "next_call"
       /\ CallRaised(q)
       /\ result'[q] = Raised("APIError")

\* C36: with a round limit of 1 or more the return placed after the while
\* loop is never reached: the loop condition holds every time the head of
\* the loop is reached, and the step that ends _execute_sequential_rounds is
\* one of the returns inside the loop or a fault of one of its calls.
C36_FallbackUnreachable ==
    /\ [](\A q \in Slots :
             (max_rounds[q] >= 1 /\ pc[q] = "loop") =>
                 round_count[q] < max_rounds[q])
    /\ [][\A q \in Slots :
             (max_rounds[q] >= 1 /\ pc[q] \in InRounds /\ pc'[q] = "done") =>
                 LeavesInsideLoop(q)]_vars

\* A query with round limit 2 is at the head of the loop for the second
\* time, after one tool round, with a response that asks for tools again.
C36_Witness ==
    \E q \in Slots :
        /\ pc[q] = "loop"
        /\ max_rounds[q] = 2
        /\ round_count[q] = 1
        /\ Len(api_calls[q]) = 2
        /\ current_response[q].stop_reason = "tool_use"

EarlierTexts(q) ==
    {responses[q][k].response.content[i].text :
        <<k, i>> \in {ki \in (1 .. (Len(responses[q]) - 1)) \X (1 .. (MaxBlocks + 1)) :
                        /\ ~responses[q][ki[1]].fault
                        /\ ki[2] <= Len(responses[q][ki[1]].response.content)
                        /\ responses[q][ki[1]].response.content[ki[2]].type = "text"}}

\* C38: an answer returned by a query comes from the response the query
\* received last: it is the text of the first block of that response, or one
\* of the fixed strings "Tool execution failed" and "No response generated"
\* when that response has no content.  It is never the text of an earlier
\* response.
C38_AnswerFromLastResponse ==
    \A q \in Slots :
        (Done(q) /\ result[q].kind = "returned") =>
            /\ Len(responses[q]) = Len(api_calls[q])
            /\ Len(responses[q]) >= 1
            /\ Answered(q, Len(responses[q]))
            /\ LET last == responses[q][Len(responses[q])].response
               IN  IF Len(last.content) = 0
                   THEN result[q].value \in {"Tool execution failed",
                                             "No response generated"}
                   ELSE /\ last.content[1].type = "text"
                        /\ result[q].value = last.content[1].text
            /\ result[q].value \notin EarlierTexts(q)

\* A query of two rounds whose three responses all began with a text block
\* returned the text of the third.
C38_Witness ==
    \E q \in Slots :
        /\ Done(q)
        /\ Len(responses[q]) = 3
        /\ \A k \in 1 .. 3 :
               /\ Answered(q, k)
               /\ Len(responses[q][k].response.content) > 0
               /\ responses[q][k].response.content[1].type = "text"
        /\ EarlierTexts(q) = {ResponseText(q, 1), ResponseText(q, 2)}
        /\ result[q] = Returned(ResponseText(q, 3))

\* The k-th call of query q is the final call forced by the round limit.
ForcedFinal(q, k) == k >= 2 /\ k = max_rounds[q] + 1

\* C39: every call of a query is sent the system content built at the start
\* of the query and the sampling parameters model, temperature 0 and
\* max_tokens 800; every call but the forced final one advertises the tools
\* the caller passed (none when the caller passed none), and the forced final
\* call advertises none.  The steps of a running query leave its query text,
\* history, system content, tools, tool manager and round limit as they are,
\* and they leave the requests already sent as they are.
C39_SameContextEveryCall ==
    /\ [](\A q \in Slots :
             \A k \in 1 .. Len(api_calls[q]) :
                 LET call == api_calls[q][k]
                 IN  /\ call.system = system_content[q]
                     /\ call.system = api_calls[q][1].system
                     /\ call.model = "model"
                     /\ call.temperature = 0
                     /\ call.max_tokens = 800
                     /\ IF ForcedFinal(q, k) \/ ~Truthy(tools[q])
                        THEN DOMAIN call =
                                 {"model", "temperature", "max_tokens",
                                  "messages", "system"}
                        ELSE /\ DOMAIN call =
                                    {"model", "temperature", "max_tokens",
                                     "messages", "system", "tools",
                                     "tool_choice"}
                             /\ call.tools = tools[q].val
                             /\ call.tool_choice = [type |-> "auto"])
    /\ [][\A q \in Slots :
             pc[q] # "idle" =>
                 /\ query'[q] = query[q]
                 /\ conversation_history'[q] = conversation_history[q]
                 /\ system_content'[q] = system_content[q]
                 /\ tools'[q] = tools[q]
                 /\ tool_manager'[q] = tool_manager[q]
                 /\ max_rounds'[q] = max_rounds[q]
                 /\ IsPrefix(api_calls[q], api_calls'[q])]_vars

\* A query with a history, the tool definitions and round limit 2 made three
\* calls: all three were sent the history, the first two advertised the
\* tools and the third did not.
C39_Witness ==
    \E q \in Slots :
        /\ max_rounds[q] = 2
        /\ Len(api_calls[q]) = 3
        /\ conversation_history[q] = Some("User: q\nAssistant: a")
        /\ tools[q] = Some(ToolDefinitions)
        /\ \A k \in 1 .. 3 : Contains(api_calls[q][k].system, "User: q")
        /\ api_calls[q][1].tools = ToolDefinitions
        /\ api_calls[q][2].tools = ToolDefinitions
        /\ ~Advertised(api_calls[q][3])

====
